---- MODULE Spec2Model ----
(***************************************************************************)
(* Model of the streaming GeoJSON ingestion of GeoJSONLayer (src/index.js):*)
(* the boundary scanner findCompleteJsonEnd, the dispatch pass             *)
(* processStreamingBuffer, the read loops of loadUrlStreaming and loadFile,*)
(* the two racing paths of loadFromUrl and the deferred attachment of      *)
(* loadData, addTo and the pending timer.                                  *)
(*                                                                         *)
(* A text is a sequence of one-character strings.  JavaScript indices are  *)
(* 0-based, TLA+ sequences 1-based: operators named after JavaScript       *)
(* functions take and return 0-based indices.  The stream is ASCII, so the *)
(* byte length of a fragment is its length in characters.                  *)
(***************************************************************************)
EXTENDS Integers, Sequences, FiniteSets, TLC

VARIABLES
  pc,           \* position of the operation: idle, fetching, reading, done, failed
  stream,       \* text the response body has not delivered yet
  chunkSize,    \* options.chunkSize
  buffer,       \* let buffer
  totalBytes,   \* let totalBytes
  loadedBytes,  \* let loadedBytes
  calls,        \* processChunk invocations so far, in order
  completes,    \* number of completeCallback invocations
  errors,       \* number of errorCallback invocations
  settled,      \* promise state: pending, resolved, rejected
  received,     \* history: all text delivered by reader.read() so far
  bufStart,     \* history: offset in received at which buffer starts
  spans,        \* history: for each call, the positions of received it carries
  lastPass,     \* history: argument and result of the last dispatch pass
  trimFired,    \* history: the backpressure trim has replaced the buffer
  docObjs,      \* history: the objects the stream document was built from
  docTail,      \* history: the text that follows them in the document
  fnPc,         \* direct call of a method: idle, input, scanned, processed
  fnText,       \* argument of the direct call
  fnObjs,       \* history: the objects fnText was built from
  fnTail,       \* history: the text that follows them in fnText
  fnOut,        \* value returned by the direct call
  fnFinal,      \* the isFinal argument of a direct processStreamingBuffer call
  fnExt,        \* text appended to fnText for a second scan
  fnOut2,       \* value returned by the scan of fnText followed by fnExt
  layer,        \* the GeoJSONLayer's fields and what it has sent to the engine
  engineMode,   \* which records the engine raises on: accepts, raises, raisesOnEmpty
  inFlight,     \* number of reads issued and not yet completed
  reported,     \* the errors passed to errorCallback, in order
  rejection,    \* the error the promise was rejected with, or "none"
  filePc,       \* position of loadFile: idle, reading, done, failed, crashed
  file,         \* the text of the File
  offset,       \* let offset
  urlPc,        \* position of loadFromUrl: idle, running, failed
  stateDone,    \* state.done
  slot,         \* window.rustyleafGeoJSONData, or Null
  producer,     \* the engine's own retrieval: idle, pending, written
  pollArmed,    \* a setTimeout(checkForData, 100) is pending
  expired,      \* Date.now() - startTime > TIMEOUT_MS
  fetchState,   \* the fetch fallback: idle, pending, fulfilled, rejected
  doneSets,     \* history: number of assignments state.done = true
  lastTurn,     \* history: what the latest callback turn of loadFromUrl did
  submitted,    \* history: the arguments of the loadData calls, in order
  appliedAt,    \* history: for each load_geojson call, in order, the number
                \* of loadData calls made by then
  handled       \* history: for each processChunk call, in order, whether the
                \* layer had a consumer handle then

streamVars == <<pc, stream, chunkSize, buffer, totalBytes, loadedBytes, calls,
                completes, errors, settled, received, bufStart, spans, lastPass,
                trimFired, docObjs, docTail>>
fnVars == <<fnPc, fnText, fnObjs, fnTail, fnOut, fnFinal, fnExt, fnOut2>>
layerVars == <<layer, engineMode>>
readVars == <<inFlight, reported, rejection>>
fileVars == <<filePc, file, offset>>
urlVars == <<urlPc, stateDone, slot, producer, pollArmed, expired, fetchState,
             doneSets, lastTurn>>
loadVars == <<submitted, appliedAt>>
callVars == <<handled>>
vars == <<streamVars, fnVars, layerVars, readVars, fileVars, urlVars,
          loadVars, callVars>>

(***************************************************************************)
(* Bounds of the model.                                                    *)
(***************************************************************************)
MaxLen == 6        \* longest text enumerated exhaustively for direct calls
MaxObjs == 2       \* most objects in a constructed document
MaxFrag == 2       \* longest fragment one read delivers
MaxChunk == 2      \* largest chunkSize option
MaxStream == 9     \* longest stream document
MaxTail == 4       \* longest stream document enumerated exhaustively
MaxFile == 4       \* longest file

(***************************************************************************)
(* Texts.                                                                  *)
(***************************************************************************)
LB == "{"
RB == "}"
QT == "\""
BS == "\\"
SP == " "
NL == "\n"
Alphabet == {LB, RB, QT, BS, SP, "a"}
Whitespace == {SP, NL}

Texts(n) == UNION {[1..k -> Alphabet] : k \in 0..n}

\* JavaScript String.prototype.substring(start, end) for 0 <= start <= end
Substring(str, start, end) ==
  SubSeq(str, start + 1, IF end > Len(str) THEN Len(str) ELSE end)

\* JavaScript String.prototype.slice(-n) for n >= 0: slice(-0) is slice(0)
SliceLast(str, n) ==
  IF n = 0 \/ n >= Len(str) THEN str
  ELSE SubSeq(str, Len(str) - n + 1, Len(str))

\* JavaScript String.prototype.trim(): is anything left after trimming
TrimNonEmpty(str) == \E i \in 1..Len(str) : str[i] \notin Whitespace

(***************************************************************************)
(* findCompleteJsonEnd: one iteration of the for loop, then the loop.      *)
(***************************************************************************)
ScanInit == [braceCount |-> 0, inString |-> FALSE, escape |-> FALSE,
             found |-> FALSE]

\* plausible bug: a backslash does not escape the character after it
ScanCharNoEscape(st, char) ==
  IF char = QT THEN [st EXCEPT !.inString = ~st.inString]
  ELSE IF st.inString THEN st
  ELSE IF char = LB THEN [st EXCEPT !.braceCount = @ + 1]
  ELSE IF char = RB
    THEN [st EXCEPT !.braceCount = @ - 1, !.found = (st.braceCount - 1 = 0)]
  ELSE st

\* plausible bug: structural characters are counted inside quoted strings
ScanCharNoString(st, char) ==
  IF st.escape THEN [st EXCEPT !.escape = FALSE]
  ELSE IF char = BS THEN [st EXCEPT !.escape = TRUE]
  ELSE IF char = QT THEN [st EXCEPT !.inString = ~st.inString]
  ELSE IF char = LB THEN [st EXCEPT !.braceCount = @ + 1]
  ELSE IF char = RB
    THEN [st EXCEPT !.braceCount = @ - 1, !.found = (st.braceCount - 1 = 0)]
  ELSE st

ScanChar(st, char) ==
  IF st.escape THEN [st EXCEPT !.escape = FALSE]
  ELSE IF char = BS THEN [st EXCEPT !.escape = TRUE]
  ELSE IF char = QT THEN [st EXCEPT !.inString = ~st.inString]
  ELSE IF st.inString THEN st
  ELSE IF char = LB THEN [st EXCEPT !.braceCount = @ + 1]
  ELSE IF char = RB
    THEN [st EXCEPT !.braceCount = @ - 1, !.found = (st.braceCount - 1 = 0)]
  ELSE st

\* plausible bug: the loop does not return at the first boundary and ends
\* up with the last one
RECURSIVE ScanLoopLast(_, _, _)
ScanLoopLast(str, i, st) ==
  IF i >= Len(str)
    THEN [index |-> -1, inString |-> st.inString, escape |-> st.escape]
    ELSE LET nx == ScanChar(st, str[i + 1])
             rest == ScanLoopLast(str, i + 1, [nx EXCEPT !.found = FALSE])
         IN  IF nx.found /\ rest.index = -1
               THEN [index |-> i, inString |-> nx.inString, escape |-> nx.escape]
               ELSE rest

RECURSIVE ScanLoop(_, _, _)
ScanLoop(str, i, st) ==
  IF i >= Len(str)
    THEN [index |-> -1, inString |-> st.inString, escape |-> st.escape]
    ELSE LET nx == ScanChar(st, str[i + 1])
         IN  IF nx.found
               THEN [index |-> i, inString |-> nx.inString, escape |-> nx.escape]
               ELSE ScanLoop(str, i + 1, nx)

\* the scan with the scanner's flags as they are when it returns
ScanResult(str) == ScanLoop(str, 0, ScanInit)

findCompleteJsonEnd(str) == ScanResult(str).index

(***************************************************************************)
(* processStreamingBuffer: the while loop; dispatched lists the            *)
(* processChunk(jsonStr, false) calls it makes, in order.                  *)
(***************************************************************************)
\* plausible bug: the buffer is cut at endIndex, keeping the closing brace
RECURSIVE PsbLoopOffByOne(_, _, _)
PsbLoopOffByOne(buf, processed, dispatched) ==
  LET endIndex == findCompleteJsonEnd(buf)
  IN  IF endIndex = -1
        THEN [processed |-> processed, remaining |-> buf,
              dispatched |-> dispatched]
        ELSE PsbLoopOffByOne(Substring(buf, endIndex, Len(buf)),
                             processed + 1,
                             Append(dispatched,
                                    [chunk |-> Substring(buf, 0, endIndex + 1),
                                     isFinal |-> FALSE]))

\* plausible bug: whitespace after a dispatched object is dropped
RECURSIVE PsbLoopSkipsSeparator(_, _, _)
PsbLoopSkipsSeparator(buf, processed, dispatched) ==
  LET endIndex == findCompleteJsonEnd(buf)
      rest == Substring(buf, endIndex + 1, Len(buf))
  IN  IF endIndex = -1
        THEN [processed |-> processed, remaining |-> buf,
              dispatched |-> dispatched]
        ELSE PsbLoopSkipsSeparator(
               IF rest # <<>> /\ Head(rest) \in Whitespace THEN Tail(rest)
               ELSE rest,
               processed + 1,
               Append(dispatched,
                      [chunk |-> Substring(buf, 0, endIndex + 1),
                       isFinal |-> FALSE]))

RECURSIVE PsbLoop(_, _, _)
PsbLoop(buf, processed, dispatched) ==
  LET endIndex == findCompleteJsonEnd(buf)
  IN  IF endIndex = -1
        THEN [processed |-> processed, remaining |-> buf,
              dispatched |-> dispatched]
        ELSE PsbLoop(Substring(buf, endIndex + 1, Len(buf)),
                     processed + 1,
                     Append(dispatched,
                            [chunk |-> Substring(buf, 0, endIndex + 1),
                             isFinal |-> FALSE]))

\* plausible bug: with isFinal = true the text left over is dispatched as the
\* final record
ProcessStreamingBufferFlushing(buf, isFinal) ==
  LET r == PsbLoop(buf, 0, <<>>)
  IN  IF isFinal /\ TrimNonEmpty(r.remaining)
        THEN [processed |-> r.processed + 1, remaining |-> <<>>,
              dispatched |-> Append(r.dispatched,
                                    [chunk |-> r.remaining, isFinal |-> TRUE])]
        ELSE r

\* isFinal is not read by the method
processStreamingBuffer(buf, isFinal) == PsbLoop(buf, 0, <<>>)

(***************************************************************************)
(* Input documents: complete top-level objects, the separators between     *)
(* them and the text after the last one.                                   *)
(***************************************************************************)
ObjEmpty == <<LB, RB>>
ObjPlain == <<LB, "a", RB>>
ObjNested == <<LB, LB, "a", RB, RB>>
ObjQuotedClose == <<LB, QT, RB, QT, RB>>
ObjQuotedOpen == <<LB, QT, LB, QT, RB>>
ObjEscapedQuote == <<LB, QT, BS, QT, RB, QT, RB>>
Objects == {ObjEmpty, ObjPlain, ObjNested, ObjQuotedClose, ObjQuotedOpen,
            ObjEscapedQuote}

ObjSeqs(n) == UNION {[1..k -> Objects] : k \in 0..n}
Separators == {<<>>, <<SP>>, <<NL>>}

RECURSIVE Join(_, _)
Join(objs, sep) ==
  IF Len(objs) = 0 THEN <<>>
  ELSE IF Len(objs) = 1 THEN objs[1]
  ELSE objs[1] \o sep \o Join(Tail(objs), sep)

\* the documented scanner examples: {"a":1}  {"a":"b{c}"}  {"a":  and
\* {"a":1}{"b":2}
ExA1 == <<LB, QT, "a", QT, ":", "1", RB>>
ExString == <<LB, QT, "a", QT, ":", QT, "b", LB, "c", RB, QT, RB>>
ExOpen == <<LB, QT, "a", QT, ":">>
ExTwo == ExA1 \o <<LB, QT, "b", QT, ":", "2", RB>>
Examples == {ExA1, ExString, ExOpen, ExTwo}

(***************************************************************************)
(* The layer.  map is "this.map is set", indexed is "this.layerIndex is    *)
(* defined".  engine lists the calls made on map.wasmMap for this layer,   *)
(* in order, with ok = FALSE when the engine raised.  intervals counts the *)
(* live setInterval timers of the layer; flushes notes, for each flush of  *)
(* the Pending Attachment, the place of its load_geojson call in engine.   *)
(*                                                                         *)
(* A payload is a value with a form and an identity: a string of valid     *)
(* JSON ("text"), a string that is not JSON ("badtext"), a plain object    *)
(* ("object") or an object JSON.stringify cannot serialise ("cyclic").     *)
(***************************************************************************)
Null == [form |-> "null", id |-> "none"]
TextOf(id) == [form |-> "text", id |-> id]
BadTextOf(id) == [form |-> "badtext", id |-> id]
ObjectOf(id) == [form |-> "object", id |-> id]
CyclicOf(id) == [form |-> "cyclic", id |-> id]

\* typeof v === 'string'
IsString(v) == v.form \in {"text", "badtext"}

\* JSON.parse(v) of a string: the object it denotes, or a SyntaxError
JSONparse(v) ==
  IF v.form = "text" THEN [threw |-> FALSE, value |-> ObjectOf(v.id)]
  ELSE [threw |-> TRUE, value |-> Null]

\* JSON.stringify(v) of an object: its text, or a TypeError
JSONstringify(v) ==
  IF v.form = "object" THEN [threw |-> FALSE, value |-> TextOf(v.id)]
  ELSE [threw |-> TRUE, value |-> Null]

\* the fields as the constructor leaves them
NewLayer ==
  [map |-> FALSE, indexed |-> FALSE, geojson |-> Null, dataLoaded |-> FALSE,
   pendingText |-> Null, pendingTimer |-> FALSE, engine |-> <<>>,
   warnings |-> 0, intervals |-> 0, flushes |-> <<>>]

\* this.map && this.layerIndex !== undefined
HasHandle(l) == l.map /\ l.indexed

\* the engine's answer to load_geojson_chunk, which this model fixes per run
EngineRaises(chunk, isFinal) ==
  \/ engineMode = "raises"
  \/ engineMode = "raisesOnEmpty" /\ chunk = ObjEmpty

\* plausible bug: the record is forwarded without looking at the handle
ProcessChunkNoGuard(l, chunk, isFinal, raises) ==
  [layer |-> [l EXCEPT !.engine =
                Append(@, [op |-> "load_geojson_chunk", chunk |-> chunk,
                           isFinal |-> isFinal, ok |-> ~raises]),
              !.warnings = IF raises THEN @ + 1 ELSE @],
   threw |-> FALSE]

\* plausible bug: no try/catch around the engine call
ProcessChunkNoCatch(l, chunk, isFinal, raises) ==
  IF HasHandle(l)
    THEN [layer |-> [l EXCEPT !.engine =
                       Append(@, [op |-> "load_geojson_chunk", chunk |-> chunk,
                                  isFinal |-> isFinal, ok |-> ~raises])],
          threw |-> raises]
    ELSE [layer |-> l, threw |-> FALSE]

\* processChunk(chunk, isFinal): the layer afterwards, and whether it threw
processChunk(l, chunk, isFinal, raises) ==
  IF HasHandle(l)
    THEN [layer |-> [l EXCEPT !.engine =
                       Append(@, [op |-> "load_geojson_chunk", chunk |-> chunk,
                                  isFinal |-> isFinal, ok |-> ~raises]),
                     !.warnings = IF raises THEN @ + 1 ELSE @],
          threw |-> FALSE]
    ELSE [layer |-> l, threw |-> FALSE]

\* the processChunk calls of one handler, in order, up to the first that
\* throws: the layer afterwards, whether one threw and how many were made
RECURSIVE RunCalls(_, _, _)
RunCalls(l, todo, made) ==
  IF todo = <<>> THEN [layer |-> l, threw |-> FALSE, made |-> made]
  ELSE LET c == Head(todo)
           r == processChunk(l, c.chunk, c.isFinal,
                             EngineRaises(c.chunk, c.isFinal))
       IN  IF r.threw
             THEN [layer |-> r.layer, threw |-> TRUE, made |-> made + 1]
             ELSE RunCalls(r.layer, Tail(todo), made + 1)

\* the layers an operation can start on: never added to a map, or added
StartLayers ==
  {NewLayer, [NewLayer EXCEPT !.map = TRUE, !.indexed = TRUE]}

\* the engine's behaviour matters only when the layer has a handle
StartModes(l) ==
  IF HasHandle(l) THEN {"accepts", "raises", "raisesOnEmpty"} ELSE {"accepts"}

\* whether a call of load_geojson, add_geojson_layer, load_geojson_from_url
\* or clear_geojson_layer can raise: never, or on any call
MayRaise == IF engineMode = "flaky" THEN BOOLEAN ELSE {FALSE}

\* one call on map.wasmMap, logged; ok = FALSE when the engine raised
EngineCall(l, op, text, raises) ==
  [l EXCEPT !.engine = Append(@, [op |-> op, text |-> text, ok |-> ~raises])]

\* updateStyle()
updateStyle(l) ==
  IF HasHandle(l) THEN EngineCall(l, "set_geojson_style", Null, FALSE) ELSE l

\* map.wasmMap.load_geojson(layerIndex, text); this.updateStyle(): the layer
\* afterwards; the style is not reached when the engine raises
LoadAndStyle(l, text, raises) ==
  IF raises THEN EngineCall(l, "load_geojson", text, TRUE)
  ELSE updateStyle(EngineCall(l, "load_geojson", text, FALSE))

\* plausible bug: the flush leaves the pending text stored
ClearPendingKeepsText(l) ==
  [l EXCEPT !.pendingTimer = FALSE,
            !.intervals = IF l.pendingTimer THEN @ - 1 ELSE @]

\* plausible bug: the flush does not cancel the timer
ClearPendingKeepsTimer(l) == [l EXCEPT !.pendingText = Null]

\* the finally blocks of addTo and of the timer callback: the pending text
\* is dropped and the interval, if one is armed, is cleared
ClearPending(l) ==
  [l EXCEPT !.pendingText = Null, !.pendingTimer = FALSE,
            !.intervals = IF l.pendingTimer THEN @ - 1 ELSE @]

\* try { load_geojson(pending); updateStyle() } finally { ... }: a flush of
\* the Pending Attachment, noted in flushes
FlushPending(l, raises) ==
  [ClearPending(LoadAndStyle(l, l.pendingText, raises))
     EXCEPT !.flushes = Append(@, Len(l.engine) + 1)]

\* loadData(geojson): the layer afterwards, and whether it threw
loadData(l, geojson, raises) ==
  IF l.dataLoaded THEN [layer |-> l, threw |-> FALSE]
  ELSE
    LET jsonObject == IF IsString(geojson) THEN JSONparse(geojson).value
                      ELSE geojson
        jsonText == IF IsString(geojson) THEN geojson
                    ELSE JSONstringify(geojson).value
        warned == IsString(geojson) /\ JSONparse(geojson).threw
        l1 == [l EXCEPT !.geojson = jsonObject, !.dataLoaded = TRUE,
                        !.warnings = IF warned THEN @ + 1 ELSE @]
    IN  IF jsonText = Null THEN [layer |-> l1, threw |-> FALSE]
        ELSE IF HasHandle(l1)
          THEN IF raises
                 THEN [layer |-> LoadAndStyle(l1, jsonText, TRUE),
                       threw |-> TRUE]
                 ELSE [layer |-> [LoadAndStyle(l1, jsonText, FALSE)
                                    EXCEPT !.pendingText = Null],
                       threw |-> FALSE]
          \* if (!this._pendingTimer) this._pendingTimer = setInterval(...)
          ELSE [layer |-> [l1 EXCEPT !.pendingText = jsonText,
                                     !.pendingTimer = TRUE,
                                     !.intervals = IF l1.pendingTimer THEN @
                                                   ELSE @ + 1],
                threw |-> FALSE]

\* addTo(map): addRaises is add_geojson_layer raising, raises is load_geojson
addTo(l, addRaises, raises) ==
  LET l1 == EngineCall([l EXCEPT !.map = TRUE], "add_geojson_layer", Null,
                       addRaises)
      l2 == [l1 EXCEPT !.indexed = TRUE]
  IN  IF addRaises THEN [layer |-> l1, threw |-> TRUE]
      ELSE IF l2.pendingText # Null
        THEN [layer |-> FlushPending(l2, raises), threw |-> raises]
      ELSE IF l2.geojson # Null
        THEN IF JSONstringify(l2.geojson).threw
               THEN [layer |-> l2, threw |-> TRUE]
               ELSE [layer |-> LoadAndStyle(l2, JSONstringify(l2.geojson).value,
                                            raises),
                     threw |-> raises]
      ELSE [layer |-> l2, threw |-> FALSE]

\* the setInterval callback armed by loadData
TimerCallback(l, raises) ==
  IF HasHandle(l) /\ l.pendingText # Null
    THEN FlushPending(l, raises)
    ELSE l

\* remove()
remove(l) == IF l.map THEN [l EXCEPT !.map = FALSE] ELSE l

\* clear(): a raise of clear_geojson_layer is caught and warned
clear(l, raises) ==
  LET l1 == [l EXCEPT !.geojson = Null]
  IN  IF HasHandle(l1)
        THEN [EngineCall(l1, "clear_geojson_layer", Null, raises)
                EXCEPT !.warnings = IF raises THEN @ + 1 ELSE @]
        ELSE l1

\* the load_geojson calls among the engine calls of a layer
LoadCalls(l) == {i \in 1..Len(l.engine) : l.engine[i].op = "load_geojson"}

\* appliedAt after a handler that took the layer from before to after, when
\* n loadData calls have been made by then
AppliedAtAfter(before, after, n) ==
  appliedAt \o [i \in 1..(Cardinality(LoadCalls(after))
                           - Cardinality(LoadCalls(before))) |-> n]

\* plausible bug: the continuation issues the next read twice
IssueReadTwice(n) == n + 2

\* readChunk(): one more read is outstanding
IssueRead(n) == n + 1

(***************************************************************************)
(* loadUrlStreaming.  The caller passes completeCallback and errorCallback;*)
(* chunkSize is a positive size.  Every read delivers between one and      *)
(* MaxFrag characters of the document, in order.                           *)
(***************************************************************************)
StreamAlphabet == {LB, RB, QT, SP, "a"}
StreamObjects == {ObjEmpty, ObjPlain, ObjQuotedClose}
StreamSeparators == {<<>>, <<SP>>}
StreamTails == {<<>>, <<SP>>, <<LB>>}

NoPass == [input |-> <<>>, processed |-> 0, remaining |-> <<>>,
           dispatched |-> <<>>]

\* no direct call is in progress
FnIdle ==
  /\ fnPc = "idle" /\ fnText = <<>> /\ fnObjs = <<>> /\ fnTail = <<>>
  /\ fnOut = <<>> /\ fnFinal = FALSE /\ fnExt = <<>> /\ fnOut2 = <<>>

\* no loadUrlStreaming operation is in progress
StreamIdle ==
  /\ pc = "idle" /\ stream = <<>> /\ chunkSize = 1 /\ buffer = <<>>
  /\ totalBytes = 0 /\ loadedBytes = 0 /\ calls = <<>> /\ completes = 0
  /\ errors = 0 /\ settled = "pending" /\ received = <<>> /\ bufStart = 0
  /\ spans = <<>> /\ lastPass = NoPass /\ trimFired = FALSE
  /\ docObjs = <<>> /\ docTail = <<>>

\* no layer is under observation
LayerIdle ==
  /\ layer = NewLayer /\ engineMode = "accepts"

\* no read loop runs and nothing was reported
ReadIdle ==
  /\ inFlight = 0 /\ reported = <<>> /\ rejection = "none"

\* no loadFile operation is in progress
FileIdle ==
  /\ filePc = "idle" /\ file = <<>> /\ offset = 0

\* no loadFromUrl operation is in progress
UrlIdle ==
  /\ urlPc = "idle" /\ stateDone = FALSE /\ slot = Null /\ producer = "idle"
  /\ pollArmed = FALSE /\ expired = FALSE /\ fetchState = "idle"
  /\ doneSets = 0 /\ lastTurn = "none"

\* processChunk has not been called
CallIdle == handled = <<>>

\* loadData has not been called
LoadIdle == submitted = <<>> /\ appliedAt = <<>>

Init ==
  /\ FnIdle
  /\ FileIdle
  /\ UrlIdle
  /\ LoadIdle
  /\ CallIdle
  /\ layer \in StartLayers
  /\ engineMode \in StartModes(layer)
  /\ inFlight = 0
  /\ reported = <<>>
  /\ rejection = "none"
  /\ pc = "fetching"
  /\ chunkSize \in 1..MaxChunk
  /\ \/ /\ docObjs = <<>>
        /\ docTail \in UNION {[1..k -> StreamAlphabet] : k \in 0..MaxTail}
        /\ stream = docTail
     \/ /\ docObjs \in UNION {[1..k -> StreamObjects] : k \in 1..MaxObjs}
        /\ docTail \in StreamTails
        /\ \E sep \in StreamSeparators :
             stream = Join(docObjs, sep) \o docTail
  /\ Len(stream) <= MaxStream
  /\ buffer = <<>>
  /\ totalBytes = 0
  /\ loadedBytes = 0
  /\ calls = <<>>
  /\ completes = 0
  /\ errors = 0
  /\ settled = "pending"
  /\ received = <<>>
  /\ bufStart = 0
  /\ spans = <<>>
  /\ lastPass = NoPass
  /\ trimFired = FALSE

\* fetch(url) resolved with an ok response: the reader is taken, readChunk()
FetchOk ==
  /\ pc = "fetching"
  /\ pc' = "reading"
  /\ inFlight' = IssueRead(inFlight)
  /\ UNCHANGED <<stream, chunkSize, buffer, totalBytes, loadedBytes, calls,
                 completes, errors, settled, received, bufStart, spans,
                 lastPass, trimFired, docObjs, docTail, fnVars, callVars,
                 urlVars, loadVars,
                 layerVars,
                 reported, rejection,
                 fileVars>>

\* fetch(url) rejected or the response is not ok: the outer catch
FetchFail ==
  /\ pc = "fetching"
  /\ pc' = "failed"
  /\ errors' = errors + 1
  /\ settled' = "rejected"
  /\ \E e \in {"fetch rejected", "HTTP error"} :
       /\ reported' = Append(reported, e)
       /\ rejection' = e
  /\ UNCHANGED <<stream, chunkSize, buffer, totalBytes, loadedBytes, calls,
                 completes, received, bufStart, spans, lastPass, trimFired,
                 docObjs, docTail, fnVars, callVars, urlVars, loadVars,
                 layerVars, inFlight,
                 fileVars>>

\* positions of the text processed in a pass that each dispatched chunk
\* carries, the text starting at position base + 1 of received
RECURSIVE PassSpans(_, _)
PassSpans(dispatched, base) ==
  IF dispatched = <<>> THEN <<>>
  ELSE <<[from |-> base + 1, to |-> base + Len(Head(dispatched).chunk)]>>
         \o PassSpans(Tail(dispatched), base + Len(Head(dispatched).chunk))

\* plausible bug: the trim keeps the first chunkSize characters
TrimKeepFirst(buf, size) ==
  IF Len(buf) > size * 2 THEN SubSeq(buf, 1, size) ELSE buf

\* if (buffer.length > chunkSize * 2) buffer = buffer.slice(-chunkSize)
Trim(buf, size) ==
  IF Len(buf) > size * 2 THEN SliceLast(buf, size) ELSE buf

\* plausible bug: the text carried over from earlier reads is dropped
AbsorbedDropped(buf, chunk) == chunk

\* buffer += chunk
Absorbed(buf, chunk) == buf \o chunk

\* reader.read() resolved with {done: false, value}
ReadChunk ==
  /\ pc = "reading"
  /\ \E n \in 1..MaxFrag :
       /\ n <= Len(stream)
       /\ LET chunk == SubSeq(stream, 1, n)
              buf == Absorbed(buffer, chunk)
              pass == processStreamingBuffer(buf, FALSE)
              run == RunCalls(layer, pass.dispatched, 0)
              made == SubSeq(pass.dispatched, 1, run.made)
          IN  /\ stream' = SubSeq(stream, n + 1, Len(stream))
              /\ received' = received \o chunk
              /\ loadedBytes' = loadedBytes + n
              /\ totalBytes' = totalBytes + n
              /\ calls' = calls \o made
              /\ handled' = handled \o [i \in 1..Len(made) |-> HasHandle(layer)]
              /\ spans' = spans \o PassSpans(made, bufStart)
              /\ layer' = run.layer
              /\ lastPass' = [input |-> buf, processed |-> pass.processed,
                              remaining |-> pass.remaining,
                              dispatched |-> pass.dispatched]
              /\ IF run.threw
                   \* an exception in the handler: the inner catch
                   THEN /\ buffer' = buf
                        /\ UNCHANGED <<trimFired, bufStart>>
                        /\ inFlight' = inFlight - 1
                        /\ pc' = "failed"
                        /\ errors' = errors + 1
                        /\ reported' = Append(reported, "engine raised")
                        /\ rejection' = "engine raised"
                        /\ settled' = "rejected"
                   ELSE /\ buffer' = Trim(buf, chunkSize)
                        /\ trimFired' = (trimFired \/ Len(buf) > chunkSize * 2)
                        /\ bufStart' =
                             bufStart + Len(buf) - Len(Trim(buf, chunkSize))
                        /\ inFlight' = IssueRead(inFlight - 1)
                        /\ pc' = "reading"
                        /\ UNCHANGED <<errors, reported, rejection, settled>>
  /\ UNCHANGED <<chunkSize, completes, docObjs, docTail, fnVars, urlVars,
                 loadVars,
                 engineMode,
                 fileVars>>

\* the calls the done branch makes: if (buffer.trim()) processChunk(buffer, true)
FinalFlush(buf) ==
  IF TrimNonEmpty(buf) THEN <<[chunk |-> buf, isFinal |-> TRUE]>> ELSE <<>>

\* reader.read() resolved with {done: true}
ReadDone ==
  /\ pc = "reading"
  /\ stream = <<>>
  /\ LET run == RunCalls(layer, FinalFlush(buffer), 0)
         made == SubSeq(FinalFlush(buffer), 1, run.made)
     IN  /\ calls' = calls \o made
         /\ handled' = handled \o [i \in 1..Len(made) |-> HasHandle(layer)]
         /\ spans' = spans \o PassSpans(made, bufStart)
         /\ layer' = run.layer
         /\ inFlight' = inFlight - 1
         /\ IF run.threw
              \* an exception in the handler: the inner catch
              THEN /\ pc' = "failed"
                   /\ errors' = errors + 1
                   /\ reported' = Append(reported, "engine raised")
                   /\ rejection' = "engine raised"
                   /\ settled' = "rejected"
                   /\ UNCHANGED completes
              ELSE /\ completes' = completes + 1
                   /\ settled' = "resolved"
                   /\ pc' = "done"
                   /\ UNCHANGED <<errors, reported, rejection>>
  /\ UNCHANGED <<stream, chunkSize, buffer, totalBytes, loadedBytes,
                 received, bufStart, lastPass, trimFired, docObjs, docTail,
                 fnVars, urlVars, loadVars, engineMode,
                 fileVars>>

\* plausible bug: the failed read is reported and then retried
ReadFailRetry ==
  /\ pc = "reading"
  /\ errors' = errors + 1
  /\ reported' = Append(reported, "read rejected")
  /\ pc' = "reading"
  /\ UNCHANGED <<stream, chunkSize, buffer, totalBytes, loadedBytes, calls,
                 completes, settled, received, bufStart, spans, lastPass,
                 trimFired, docObjs, docTail, fnVars, callVars, urlVars,
                 loadVars,
                 layerVars, fileVars,
                 inFlight, rejection>>

\* reader.read() rejected: the inner catch
ReadFail ==
  /\ pc = "reading"
  /\ errors' = errors + 1
  /\ settled' = "rejected"
  /\ reported' = Append(reported, "read rejected")
  /\ rejection' = "read rejected"
  /\ inFlight' = inFlight - 1
  /\ pc' = "failed"
  /\ UNCHANGED <<stream, chunkSize, buffer, totalBytes, loadedBytes, calls,
                 completes, received, bufStart, spans, lastPass, trimFired,
                 docObjs, docTail, fnVars, callVars, urlVars, loadVars,
                 layerVars,
                 fileVars>>

Next == FetchOk \/ FetchFail \/ ReadChunk \/ ReadDone \/ ReadFail

Spec == Init /\ [][Next]_vars

(***************************************************************************)
(* loadFile.  The File is ASCII text; readAsText delivers the slice it was *)
(* given.  The caller passes completeCallback and errorCallback.           *)
(***************************************************************************)
FileAlphabet == {LB, RB, SP}

FileInit ==
  /\ FnIdle
  /\ UrlIdle
  /\ LoadIdle
  /\ CallIdle
  /\ pc = "idle" /\ stream = <<>> /\ buffer = <<>>
  /\ totalBytes = 0 /\ loadedBytes = 0 /\ received = <<>> /\ bufStart = 0
  /\ spans = <<>> /\ lastPass = NoPass /\ trimFired = FALSE
  /\ docObjs = <<>> /\ docTail = <<>>
  /\ layer \in StartLayers
  /\ engineMode \in StartModes(layer)
  /\ chunkSize \in 1..MaxChunk
  /\ file \in UNION {[1..k -> FileAlphabet] : k \in 0..MaxFile}
  /\ offset = 0
  /\ calls = <<>>
  /\ completes = 0
  /\ errors = 0
  /\ settled = "pending"
  /\ reported = <<>>
  /\ rejection = "none"
  \* loadFile() has run: readChunk() issued the first read
  /\ filePc = "reading"
  /\ inFlight = IssueRead(0)

\* plausible bug: the slice does not start at the running offset
FileSliceFromStart(f, from, size) == Substring(f, 0, size)

\* file.slice(offset, offset + chunkSize)
FileSlice(f, from, size) == Substring(f, from, from + size)

\* reader.onload
FileLoaded ==
  /\ filePc = "reading"
  /\ LET chunk == FileSlice(file, offset, chunkSize)
         after == offset + Len(chunk)
         isFinal == after >= Len(file)
         r == processChunk(layer, chunk, isFinal, EngineRaises(chunk, isFinal))
     IN  /\ offset' = after
         /\ calls' = Append(calls, [chunk |-> chunk, isFinal |-> isFinal])
         /\ handled' = Append(handled, HasHandle(layer))
         /\ layer' = r.layer
         /\ IF r.threw
              \* an exception in the event handler: nothing settles
              THEN /\ filePc' = "crashed"
                   /\ inFlight' = inFlight - 1
                   /\ UNCHANGED <<completes, settled>>
              ELSE IF after < Len(file)
                THEN /\ inFlight' = IssueRead(inFlight - 1)
                     /\ filePc' = "reading"
                     /\ UNCHANGED <<completes, settled>>
                ELSE /\ inFlight' = inFlight - 1
                     /\ completes' = completes + 1
                     /\ settled' = "resolved"
                     /\ filePc' = "done"
  /\ UNCHANGED <<pc, stream, chunkSize, buffer, totalBytes, loadedBytes,
                 errors, received, bufStart, spans, lastPass, trimFired,
                 docObjs, docTail, fnVars, urlVars, loadVars,
                 engineMode, reported, rejection,
                 file>>

\* reader.onerror
FileError ==
  /\ filePc = "reading"
  /\ errors' = errors + 1
  /\ reported' = Append(reported, "Failed to read file")
  /\ rejection' = "Failed to read file"
  /\ settled' = "rejected"
  /\ inFlight' = inFlight - 1
  /\ filePc' = "failed"
  /\ UNCHANGED <<pc, stream, chunkSize, buffer, totalBytes, loadedBytes,
                 calls, completes, received, bufStart, spans, lastPass,
                 trimFired, docObjs, docTail, fnVars, callVars, urlVars,
                 loadVars,
                 layerVars, file, offset>>

FileNext == FileLoaded \/ FileError

SpecFile == FileInit /\ [][FileNext]_vars

\* a FileReader answers every read it was given with onload or onerror
SpecFileFair == SpecFile /\ WF_vars(FileNext)

\* either read loop: loadUrlStreaming or loadFile
ReadsInit == Init \/ FileInit

ReadsNext ==
  \/ FetchOk \/ FetchFail \/ ReadChunk \/ ReadDone \/ ReadFail
  \/ FileLoaded \/ FileError

SpecReads == ReadsInit /\ [][ReadsNext]_vars

(***************************************************************************)
(* loadFromUrl.  The caller passes completeCallback and errorCallback.     *)
(* Path (a): the engine retrieves the URL itself and writes the payload to *)
(* window.rustyleafGeoJSONData, which checkForData polls.  Path (b): the   *)
(* fetch fallback.  The engine's payload is the text "A", the fetched text *)
(* is "B".  Time is the one fact the code reads from the clock: whether    *)
(* the deadline has passed.                                                *)
(***************************************************************************)
SlotPayload == TextOf("A")
FetchPayload == TextOf("B")

\* a layer that already loaded data through an earlier loadData call
PreloadedPayload == TextOf("C")
PreloadedLayer ==
  loadData([NewLayer EXCEPT !.map = TRUE, !.indexed = TRUE],
           PreloadedPayload, FALSE).layer

\* the layers loadFromUrl can be called on
UrlStartLayers == StartLayers \cup {PreloadedLayer}

\* the engine of an attached layer may raise; a detached layer has no engine
UrlModes(l) == IF l.map THEN {"accepts", "flaky"} ELSE {"accepts"}

UrlInit ==
  /\ StreamIdle
  /\ FnIdle
  /\ FileIdle
  /\ ReadIdle
  /\ UrlIdle
  /\ LoadIdle
  /\ CallIdle
  /\ layer \in UrlStartLayers
  /\ engineMode \in UrlModes(layer)

\* the synchronous part of loadFromUrl(url): the promise executor
LoadFromUrl ==
  /\ urlPc = "idle"
  /\ \E raises \in MayRaise :
       IF ~layer.map \/ raises
         \* this.map is null (TypeError) or the engine raised: the outer catch
         THEN /\ layer' = IF layer.map
                            THEN EngineCall(layer, "load_geojson_from_url",
                                            Null, TRUE)
                            ELSE layer
              /\ errors' = errors + 1
              /\ reported' = Append(reported, "Failed to load GeoJSON from URL")
              /\ settled' = "rejected"
              /\ rejection' = "start failed"
              /\ urlPc' = "failed"
              /\ lastTurn' = "start-failed"
              /\ UNCHANGED <<producer, pollArmed, fetchState>>
         ELSE /\ layer' = EngineCall(layer, "load_geojson_from_url", Null,
                                     FALSE)
              /\ producer' = "pending"
              /\ pollArmed' = TRUE
              /\ fetchState' = "pending"
              /\ urlPc' = "running"
              /\ lastTurn' = "started"
              /\ UNCHANGED <<errors, reported, settled, rejection>>
  /\ UNCHANGED <<pc, stream, chunkSize, buffer, totalBytes, loadedBytes, calls,
                 completes, received, bufStart, spans, lastPass, trimFired,
                 docObjs, docTail, fnVars, callVars, fileVars, loadVars,
                 engineMode,
                 inFlight, stateDone, slot, expired, doneSets>>

\* the engine finishes its own retrieval and writes the slot, once
ProducerWrites ==
  /\ producer = "pending"
  /\ producer' = "written"
  /\ slot' = SlotPayload
  /\ lastTurn' = "producer-wrote"
  /\ UNCHANGED <<streamVars, fnVars, callVars, layerVars, readVars, fileVars,
                 loadVars,
                 urlPc, stateDone, pollArmed, expired, fetchState, doneSets>>

\* the clock passes startTime + TIMEOUT_MS
DeadlinePasses ==
  /\ urlPc = "running"
  /\ ~expired
  /\ expired' = TRUE
  /\ UNCHANGED <<streamVars, fnVars, callVars, layerVars, readVars, fileVars,
                 loadVars,
                 urlPc, stateDone, slot, producer, pollArmed, fetchState,
                 doneSets, lastTurn>>

\* plausible bug: a path applies its payload without looking at state.done
SettledNeverChecked(done) == FALSE

\* if (state.done) return;
SettledAlready(done) == done

\* plausible bug: the slot is left as it is
DeleteSlotSkipped(data) == data

\* delete window.rustyleafGeoJSONData
DeleteSlot(data) == Null

\* one run of checkForData
CheckForData ==
  /\ pollArmed
  /\ IF expired
       \* the timeout branch: the slot is deleted, the promise rejected
       \* unless state.done, and the poll is not scheduled again
       THEN /\ slot' = DeleteSlot(slot)
            /\ pollArmed' = FALSE
            /\ lastTurn' = "timeout"
            /\ IF ~stateDone /\ settled = "pending"
                 THEN settled' = "rejected" /\ rejection' = "timed out"
                 ELSE UNCHANGED <<settled, rejection>>
            /\ UNCHANGED <<layer, stateDone, doneSets, loadVars, completes,
                           errors, reported>>
       ELSE IF slot # Null
         THEN IF SettledAlready(stateDone)
                \* if (state.done) return;
                THEN /\ pollArmed' = FALSE
                     /\ lastTurn' = "slot-ignored"
                     /\ UNCHANGED <<layer, stateDone, doneSets, loadVars,
                                    completes, errors, reported, settled,
                                    rejection, slot>>
                ELSE \E raises \in MayRaise :
                       LET r == loadData(layer, slot, raises)
                       IN  /\ stateDone' = TRUE
                           /\ doneSets' = doneSets + 1
                           /\ submitted' = Append(submitted, slot)
                           /\ appliedAt' = AppliedAtAfter(layer, r.layer,
                                                          Len(submitted) + 1)
                           /\ layer' = r.layer
                           /\ pollArmed' = FALSE
                           /\ IF r.threw
                                \* the catch: the delete was not reached
                                THEN /\ errors' = errors + 1
                                     /\ reported' = Append(reported,
                                          "Failed to process loaded GeoJSON data")
                                     /\ IF settled = "pending"
                                          THEN /\ settled' = "rejected"
                                               /\ rejection' = "apply failed"
                                          ELSE UNCHANGED <<settled, rejection>>
                                     /\ lastTurn' = "slot-raised"
                                     /\ UNCHANGED <<slot, completes>>
                                ELSE /\ slot' = DeleteSlot(slot)
                                     /\ completes' = completes + 1
                                     /\ IF settled = "pending"
                                          THEN settled' = "resolved"
                                          ELSE UNCHANGED settled
                                     /\ lastTurn' = "slot-applied"
                                     /\ UNCHANGED <<errors, reported,
                                                    rejection>>
         \* setTimeout(checkForData, 100)
         ELSE /\ pollArmed' = TRUE
              /\ lastTurn' = "poll-empty"
              /\ UNCHANGED <<layer, stateDone, doneSets, loadVars, completes,
                             errors, reported, settled, rejection, slot>>
  /\ UNCHANGED <<pc, stream, chunkSize, buffer, totalBytes, loadedBytes, calls,
                 received, bufStart, spans, lastPass, trimFired, docObjs,
                 docTail, fnVars, callVars, fileVars, engineMode, inFlight,
                 urlPc,
                 producer, expired, fetchState>>

\* fetch(url) answered with an OK response: the second then-handler, and
\* the catch-handler when loadData throws in it
FetchFulfilled ==
  /\ fetchState = "pending"
  /\ fetchState' = "fulfilled"
  /\ IF SettledAlready(stateDone)
       THEN /\ lastTurn' = "fetch-ignored"
            /\ UNCHANGED <<layer, stateDone, doneSets, loadVars, completes,
                           errors, reported, settled>>
       ELSE \E raises \in MayRaise :
              LET r == loadData(layer, FetchPayload, raises)
              IN  /\ stateDone' = TRUE
                  /\ doneSets' = doneSets + 1
                  /\ submitted' = Append(submitted, FetchPayload)
                  /\ appliedAt' = AppliedAtAfter(layer, r.layer,
                                                 Len(submitted) + 1)
                  /\ layer' = r.layer
                  /\ IF r.threw
                       THEN /\ errors' = errors + 1
                            /\ reported' = Append(reported,
                                                  "Fetch fallback failed")
                            /\ lastTurn' = "fetch-raised"
                            /\ UNCHANGED <<completes, settled>>
                       ELSE /\ completes' = completes + 1
                            /\ IF settled = "pending"
                                 THEN settled' = "resolved"
                                 ELSE UNCHANGED settled
                            /\ lastTurn' = "fetch-applied"
                            /\ UNCHANGED <<errors, reported>>
  /\ UNCHANGED <<pc, stream, chunkSize, buffer, totalBytes, loadedBytes, calls,
                 received, bufStart, spans, lastPass, trimFired, docObjs,
                 docTail, fnVars, callVars, fileVars, engineMode, inFlight,
                 rejection,
                 urlPc, slot, producer, pollArmed, expired>>

\* fetch(url) rejected or answered with a non-OK status: the catch-handler
FetchRejected ==
  /\ fetchState = "pending"
  /\ fetchState' = "rejected"
  /\ errors' = errors + 1
  /\ reported' = Append(reported, "Fetch fallback failed")
  /\ lastTurn' = "fetch-failed"
  /\ UNCHANGED <<pc, stream, chunkSize, buffer, totalBytes, loadedBytes, calls,
                 completes, settled, received, bufStart, spans, lastPass,
                 trimFired, docObjs, docTail, fnVars, callVars, fileVars,
                 loadVars,
                 layerVars, inFlight, rejection, urlPc, stateDone, slot,
                 producer, pollArmed, expired, doneSets>>

UrlNext ==
  \/ LoadFromUrl
  \/ ProducerWrites
  \/ DeadlinePasses
  \/ CheckForData
  \/ FetchFulfilled
  \/ FetchRejected

SpecUrl == UrlInit /\ [][UrlNext]_vars

(***************************************************************************)
(* One layer under loadData, addTo, remove, clear and the pending timer,   *)
(* called in any order.  An exception thrown by a call reaches the caller  *)
(* and changes nothing beyond what the call had done by then.              *)
(***************************************************************************)
MaxSubmits == 2      \* loadData calls in one behaviour
MaxEngineCalls == 5  \* engine calls in one behaviour

PayloadIds == {"A", "B"}
Payloads ==
  {TextOf(id) : id \in PayloadIds} \cup {ObjectOf(id) : id \in PayloadIds}
    \cup {BadTextOf("A"), CyclicOf("B")}

LayerInit ==
  /\ StreamIdle
  /\ FnIdle
  /\ FileIdle
  /\ ReadIdle
  /\ UrlIdle
  /\ LoadIdle
  /\ CallIdle
  /\ layer = NewLayer
  /\ engineMode \in {"accepts", "flaky"}

\* layer.loadData(geojson)
LoadData ==
  /\ Len(submitted) < MaxSubmits
  /\ Len(layer.engine) + 2 <= MaxEngineCalls
  /\ \E geojson \in Payloads : \E raises \in MayRaise :
       LET r == loadData(layer, geojson, raises)
       IN  /\ layer' = r.layer
           /\ submitted' = Append(submitted, geojson)
           /\ appliedAt' = AppliedAtAfter(layer, r.layer, Len(submitted) + 1)
  /\ UNCHANGED <<streamVars, fnVars, callVars, readVars, fileVars, urlVars,
                 engineMode>>

\* layer.addTo(map)
AddTo ==
  /\ Len(layer.engine) + 3 <= MaxEngineCalls
  /\ \E addRaises \in MayRaise : \E raises \in MayRaise :
       LET r == addTo(layer, addRaises, raises)
       IN  /\ layer' = r.layer
           /\ appliedAt' = AppliedAtAfter(layer, r.layer, Len(submitted))
  /\ UNCHANGED <<streamVars, fnVars, callVars, readVars, fileVars, urlVars,
                 engineMode,
                 submitted>>

\* layer.remove()
Remove ==
  /\ layer.map
  /\ layer' = remove(layer)
  /\ UNCHANGED <<streamVars, fnVars, callVars, readVars, fileVars, urlVars,
                 loadVars,
                 engineMode>>

\* layer.clear()
Clear ==
  /\ Len(layer.engine) + 1 <= MaxEngineCalls
  /\ \E raises \in MayRaise : layer' = clear(layer, raises)
  /\ UNCHANGED <<streamVars, fnVars, callVars, readVars, fileVars, urlVars,
                 loadVars,
                 engineMode>>

\* the interval timer fires
TimerTick ==
  /\ layer.intervals > 0
  /\ Len(layer.engine) + 2 <= MaxEngineCalls
  /\ \E raises \in MayRaise :
       /\ layer' = TimerCallback(layer, raises)
       /\ appliedAt' = AppliedAtAfter(layer, layer', Len(submitted))
  /\ UNCHANGED <<streamVars, fnVars, callVars, readVars, fileVars, urlVars,
                 engineMode,
                 submitted>>

LayerNext ==
  \/ LoadData
  \/ AddTo
  \/ Remove
  \/ Clear
  \/ TimerTick

SpecLayer == LayerInit /\ [][LayerNext]_vars

(***************************************************************************)
(* loadFile on a layer that is added to and removed from a map while the   *)
(* file is being read.                                                     *)
(***************************************************************************)
AttachNext ==
  \/ FileLoaded
  \/ FileError
  \/ AddTo
  \/ Remove

SpecAttach == FileInit /\ [][AttachNext]_vars

(***************************************************************************)
(* Direct calls of findCompleteJsonEnd and processStreamingBuffer, as the  *)
(* unit tests make them.                                                   *)
(***************************************************************************)
FnInit ==
  /\ StreamIdle
  /\ LayerIdle
  /\ ReadIdle
  /\ FileIdle
  /\ UrlIdle
  /\ LoadIdle
  /\ CallIdle
  /\ fnPc = "input"
  /\ fnOut = <<>> /\ fnFinal = FALSE /\ fnExt = <<>> /\ fnOut2 = <<>>
  /\ \/ /\ fnObjs = <<>>
        /\ fnTail \in Texts(MaxLen) \cup Examples
        /\ fnText = fnTail
     \/ /\ fnObjs \in ObjSeqs(MaxObjs)
        /\ fnTail \in {<<>>, <<SP>>, <<NL>>}
        /\ \E sep \in Separators : fnText = Join(fnObjs, sep) \o fnTail

CallFindCompleteJsonEnd ==
  /\ fnPc = "input"
  /\ fnPc' = "scanned"
  /\ fnOut' = ScanResult(fnText)
  /\ UNCHANGED <<fnText, fnObjs, fnTail, fnFinal, fnExt, fnOut2, streamVars,
                 layerVars, readVars,
                 fileVars, urlVars, loadVars, callVars>>

CallProcessStreamingBuffer ==
  /\ fnPc = "input"
  /\ fnPc' = "processed"
  /\ \E isFinal \in BOOLEAN :
       /\ fnFinal' = isFinal
       /\ fnOut' = processStreamingBuffer(fnText, isFinal)
  /\ UNCHANGED <<fnText, fnObjs, fnTail, fnExt, fnOut2, streamVars,
                 layerVars, readVars,
                 fileVars, urlVars, loadVars, callVars>>

FnNext == CallFindCompleteJsonEnd \/ CallProcessStreamingBuffer

SpecFn == FnInit /\ [][FnNext]_vars

(***************************************************************************)
(* findCompleteJsonEnd on a text and on the same text with more text       *)
(* appended, as absorb calls it on a growing buffer.                       *)
(***************************************************************************)
MaxBase == 4   \* longest text scanned first
MaxExt == 2    \* longest text appended to it

ExtInit ==
  /\ StreamIdle
  /\ LayerIdle
  /\ ReadIdle
  /\ FileIdle
  /\ UrlIdle
  /\ LoadIdle
  /\ CallIdle
  /\ fnPc = "input"
  /\ fnOut = <<>> /\ fnFinal = FALSE /\ fnExt = <<>> /\ fnOut2 = <<>>
  /\ fnObjs = <<>>
  /\ fnTail \in Texts(MaxBase)
  /\ fnText = fnTail

\* a second call, on the text with a fragment appended
CallFindOnExtended ==
  /\ fnPc = "scanned"
  /\ fnPc' = "rescanned"
  /\ \E ext \in Texts(MaxExt) :
       /\ fnExt' = ext
       /\ fnOut2' = ScanResult(fnText \o ext)
  /\ UNCHANGED <<fnText, fnObjs, fnTail, fnOut, fnFinal, streamVars, layerVars,
                 readVars, fileVars, urlVars, loadVars, callVars>>

ExtNext == CallFindCompleteJsonEnd \/ CallFindOnExtended

SpecExt == ExtInit /\ [][ExtNext]_vars

(***************************************************************************)
(* Reference notions the claims are stated in, defined on the text alone.  *)
(* Positions are 1-based here.                                             *)
(***************************************************************************)
\* number of consecutive backslashes that end just before position i
BackslashRun(str, i) ==
  CHOOSE k \in 0..(i - 1) :
    /\ \A j \in (i - k)..(i - 1) : str[j] = BS
    /\ (k = i - 1 \/ str[i - k - 1] # BS)

\* the character at i follows an unresolved backslash
Escaped(str, i) == BackslashRun(str, i) % 2 = 1

\* the character at i is a quote that opens or closes a string
IsQuote(str, i) == str[i] = QT /\ ~Escaped(str, i)

\* a quoted string is open after the character at i has been read
OpenString(str, i) == Cardinality({j \in 1..i : IsQuote(str, j)}) % 2 = 1

\* the character at i is the brace c outside every quoted string
Structural(str, i, c) ==
  str[i] = c /\ ~Escaped(str, i) /\ ~OpenString(str, i)

\* brace depth after the character at i has been read
Depth(str, i) ==
  Cardinality({j \in 1..i : Structural(str, j, LB)})
    - Cardinality({j \in 1..i : Structural(str, j, RB)})

\* position i closes a top-level object: depth returns to zero there
IsBoundary(str, i) == Structural(str, i, RB) /\ Depth(str, i) = 0

NoBoundary(str) == \A i \in 1..Len(str) : ~IsBoundary(str, i)

(***************************************************************************)
(* C3: findCompleteJsonEnd returns the index of the closing brace of the   *)
(* first complete top-level object, counting braces outside quoted strings *)
(* and skipping escaped characters, and -1 when the depth never returns to *)
(* zero; '{"a":1}' gives 6, '{"a":"b{c}"}' gives 11, '{"a":' gives -1 and  *)
(* a complete object gives length - 1.                                     *)
(***************************************************************************)
C3_ScanFindsFirstBoundary ==
  fnPc = "scanned" =>
    /\ \/ /\ fnOut.index = -1
          /\ NoBoundary(fnText)
       \/ /\ fnOut.index \in 0..(Len(fnText) - 1)
          /\ IsBoundary(fnText, fnOut.index + 1)
          /\ \A j \in 1..fnOut.index : ~IsBoundary(fnText, j)
    /\ (fnText = ExA1 => fnOut.index = 6)
    /\ (fnText = ExString => fnOut.index = 11)
    /\ (fnText = ExOpen => fnOut.index = -1)
    /\ (fnText \in Objects => fnOut.index = Len(fnText) - 1)

\* a brace inside a quoted string was skipped and the object's end found
C3_Witness ==
  /\ fnPc = "scanned"
  /\ fnText = ExString
  /\ fnOut.index = 11

(***************************************************************************)
(* C4: whenever findCompleteJsonEnd returns an index, the scanner is       *)
(* outside every quoted string and has no pending escape there, and the    *)
(* character at that index does not follow an unresolved backslash.        *)
(***************************************************************************)
C4_BoundaryOutsideStringAndEscape ==
  (fnPc = "scanned" /\ fnOut.index # -1) =>
    /\ ~fnOut.inString
    /\ ~fnOut.escape
    /\ ~OpenString(fnText, fnOut.index + 1)
    /\ ~Escaped(fnText, fnOut.index + 1)

\* an index was returned for a text holding an earlier closing brace in a
\* quoted string
C4_Witness ==
  /\ fnPc = "scanned"
  /\ fnOut.index # -1
  /\ \E j \in 1..fnOut.index : fnText[j] = RB /\ OpenString(fnText, j)

(***************************************************************************)
(* C5: on a buffer that is k complete objects, optionally separated by     *)
(* whitespace, processStreamingBuffer calls the consumer k times, reports  *)
(* processed = k and returns a remaining text with no complete object in   *)
(* it, empty when nothing follows the last object.                         *)
(***************************************************************************)
C5_DispatchesEveryObject ==
  (fnPc = "processed" /\ Len(fnObjs) >= 1) =>
    /\ Len(fnOut.dispatched) = Len(fnObjs)
    /\ fnOut.processed = Len(fnObjs)
    /\ NoBoundary(fnOut.remaining)
    /\ (fnTail = <<>> => fnOut.remaining = <<>>)

\* two objects were dispatched from one buffer and nothing remains
C5_Witness ==
  /\ fnPc = "processed"
  /\ Len(fnObjs) = 2
  /\ fnTail = <<>>
  /\ fnOut.processed = 2
  /\ fnOut.remaining = <<>>

(***************************************************************************)
(* Notions of the streaming claims.                                        *)
(***************************************************************************)
\* the calls made with isFinal = false, and with isFinal = true
NonFinalCalls == {i \in 1..Len(calls) : ~calls[i].isFinal}
FinalCalls == {i \in 1..Len(calls) : calls[i].isFinal}

\* position of received up to which text has been dispatched as a record
LastDispatched ==
  IF NonFinalCalls = {} THEN 0
  ELSE spans[CHOOSE i \in NonFinalCalls : \A j \in NonFinalCalls : j <= i].to

\* the text received after the last dispatched boundary
UndispatchedSuffix == SubSeq(received, LastDispatched + 1, Len(received))

(***************************************************************************)
(* C1: during one loadUrlStreaming operation every discovered object is    *)
(* handed to processChunk exactly once and in discovery order: no text of  *)
(* the stream is dispatched a second time by a later read or at the end.   *)
(***************************************************************************)
C1_EachRecordDispatchedOnce ==
  \A i, j \in 1..Len(spans) : i < j => spans[i].to < spans[j].from

(***************************************************************************)
(* C2: split invariance: a document of N balanced objects separated by     *)
(* whitespace, delivered in fragments smaller than any of its objects,     *)
(* yields exactly N dispatched records, in order, each the text of the     *)
(* corresponding object.                                                   *)
(***************************************************************************)
C2_SplitInvariance ==
  ( /\ pc = "done"
    /\ Len(docObjs) >= 1
    /\ docTail = <<>>
    /\ ~trimFired
    /\ \A i \in 1..Len(docObjs) : Len(docObjs[i]) > MaxFrag )
  => /\ Len(calls) = Len(docObjs)
     /\ \A i \in 1..Len(docObjs) : calls[i].chunk = docObjs[i]

\* a dispatch pass on a text without a complete object dispatches nothing
PassLeavesUnterminated ==
  NoBoundary(lastPass.input) =>
    /\ lastPass.processed = 0
    /\ lastPass.dispatched = <<>>
    /\ lastPass.remaining = lastPass.input

\* a received text without a complete object is all in the buffer, and the
\* final flush is the only call that carries it
CarriedToFinalFlush ==
  NoBoundary(received) =>
    /\ pc = "reading" => (calls = <<>> /\ buffer = received)
    /\ pc = "done" => calls = FinalFlush(received)

(***************************************************************************)
(* C6 as stated: when the text holds no complete object a dispatch pass    *)
(* dispatches nothing, reports processed = 0 and leaves remaining equal to *)
(* its input, and the text is carried forward to the end of the stream,    *)
(* where only the final flush dispatches it.                               *)
(***************************************************************************)
C6_UnterminatedCarriedAlways ==
  PassLeavesUnterminated /\ CarriedToFinalFlush

(***************************************************************************)
(* C6 amended: the same, for as long as the backpressure trim has not      *)
(* replaced the buffer; a pass on a buffer without a complete object       *)
(* dispatches nothing in every case.                                       *)
(***************************************************************************)
C6_UnterminatedCarriedUntilTrim ==
  /\ PassLeavesUnterminated
  /\ ~trimFired => CarriedToFinalFlush

\* a never-closed text of three reads was dispatched by the final flush alone
C6_Witness ==
  /\ pc = "done"
  /\ ~trimFired
  /\ NoBoundary(received)
  /\ Len(received) >= 3
  /\ lastPass.input = received
  /\ lastPass.processed = 0
  /\ calls = <<[chunk |-> received, isFinal |-> TRUE]>>

(***************************************************************************)
(* C7: after every absorb step in which no trim fired, the buffer is the   *)
(* text received after the last dispatched boundary: it holds no record    *)
(* that was already dispatched.                                            *)
(***************************************************************************)
C7_BufferIsUndispatchedSuffix ==
  (pc = "reading" /\ ~trimFired) =>
    /\ buffer = UndispatchedSuffix
    /\ NoBoundary(buffer)

(***************************************************************************)
(* C8: at the end of the stream the suffix that remains is dispatched once *)
(* with isFinal = true, the text so dispatched is only the undispatched    *)
(* suffix, and the Load Result is emitted once and the operation resolves. *)
(***************************************************************************)
C8_FinalFlushIsUndispatchedSuffix ==
  pc = "done" =>
    /\ completes = 1
    /\ settled = "resolved"
    /\ errors = 0
    /\ Cardinality(FinalCalls) <= 1
    /\ \A i \in FinalCalls : i = Len(calls)
    /\ ~trimFired =>
         /\ TrimNonEmpty(UndispatchedSuffix) =>
              /\ FinalCalls # {}
              /\ calls[Len(calls)].chunk = UndispatchedSuffix
         /\ ~TrimNonEmpty(UndispatchedSuffix) => FinalCalls = {}

(***************************************************************************)
(* C9: after each absorb, a buffer longer than 2 x chunkSize has been      *)
(* replaced by its last chunkSize characters and a shorter one is left as  *)
(* it is, so the buffer is at most 2 x chunkSize long whenever the next    *)
(* read is issued.                                                         *)
(***************************************************************************)
C9_BackpressureBound ==
  pc = "reading" =>
    LET before == lastPass.input
        cut == Len(before) - chunkSize
    IN  /\ Len(buffer) <= 2 * chunkSize
        /\ Len(before) > 2 * chunkSize =>
             /\ Len(buffer) = chunkSize
             /\ \A i \in 1..chunkSize : buffer[i] = before[cut + i]
        /\ Len(before) <= 2 * chunkSize => buffer = before

\* a read left more than 2 x chunkSize characters and the buffer was cut
C9_Witness ==
  /\ pc = "reading"
  /\ Len(lastPass.input) > 2 * chunkSize
  /\ Len(buffer) = chunkSize
  /\ buffer # lastPass.input

(***************************************************************************)
(* C10: when the stream holds an object longer than 2 x chunkSize, the     *)
(* record after it is not corrupted: it is still dispatched with its own   *)
(* text (leading separator whitespace allowed), and no dispatched text     *)
(* mixes characters of the oversized object with those of the record.      *)
(***************************************************************************)
C10_AdjacentRecordIntact ==
  ( /\ pc = "done"
    /\ Len(docObjs) = 2
    /\ docTail = <<>>
    /\ Len(docObjs[1]) > 2 * chunkSize )
  => LET border == Len(docObjs[1])
         recFrom == Len(received) - Len(docObjs[2]) + 1
     IN  /\ \E i \in 1..Len(spans) :
               /\ spans[i].from > border
               /\ spans[i].from <= recFrom
               /\ spans[i].to = Len(received)
         /\ \A i \in 1..Len(spans) :
               ~(spans[i].from <= border /\ spans[i].to > border)

(***************************************************************************)
(* Notions of the read-loop and error claims.                              *)
(***************************************************************************)
\* s is the text at the end of t
IsSuffix(s, t) ==
  Len(s) <= Len(t) /\ s = SubSeq(t, Len(t) - Len(s) + 1, Len(t))

\* total length of the chunks handed to processChunk
RECURSIVE ChunkChars(_)
ChunkChars(cs) ==
  IF cs = <<>> THEN 0 ELSE Len(Head(cs).chunk) + ChunkChars(Tail(cs))

\* the errors a stream source can surface
SourceErrors == {"fetch rejected", "HTTP error", "read rejected"}

\* the engine calls of the layer that raised, and those that did not
RaisedCalls == {i \in 1..Len(layer.engine) : ~layer.engine[i].ok}
AcceptedCalls == {i \in 1..Len(layer.engine) : layer.engine[i].ok}

(***************************************************************************)
(* C11: the read loops of loadUrlStreaming and loadFile are sequential: at *)
(* most one read is outstanding, and while a read is outstanding every     *)
(* earlier fragment has already been appended and dispatched.              *)
(***************************************************************************)
C11_ReadsAreSequential ==
  /\ inFlight \in {0, 1}
  /\ inFlight = 1 <=> (pc = "reading" \/ filePc = "reading")
  /\ pc = "reading" =>
       /\ Len(received) = loadedBytes
       /\ IsSuffix(buffer, received)
       /\ (loadedBytes > 0 => IsSuffix(lastPass.input, received))
  /\ filePc = "reading" =>
       /\ ChunkChars(calls) = offset
       /\ offset <= Len(file)
       /\ (offset = Len(file) => offset = 0)

\* the second read of a file is outstanding and the first slice was dispatched
C11_Witness ==
  /\ filePc = "reading"
  /\ offset > 0
  /\ Len(calls) = 1
  /\ inFlight = 1

(***************************************************************************)
(* C12: an error surfaced by the stream source of loadUrlStreaming ends    *)
(* the operation at once: errorCallback is called exactly once with that   *)
(* error, the promise rejects with it, no Load Result is emitted and no    *)
(* read is outstanding afterwards (no further read, dispatch or retry).    *)
(***************************************************************************)
C12_SourceErrorIsTerminal ==
  /\ errors <= 1
  /\ Len(reported) = errors
  /\ errors = 1 =>
       /\ pc = "failed"
       /\ settled = "rejected"
       /\ rejection \in SourceErrors
       /\ reported = <<rejection>>
       /\ completes = 0
       /\ inFlight = 0
  /\ pc = "failed" => errors = 1

\* a read failed after an earlier fragment had been dispatched
C12_Witness ==
  /\ pc = "failed"
  /\ rejection = "read rejected"
  /\ Len(calls) >= 1
  /\ reported = <<"read rejected">>

(***************************************************************************)
(* C13 as stated: when the engine raises on a record the failure is caught *)
(* for that record, reported through the operation's error callback, and   *)
(* the stream is not aborted.                                              *)
(***************************************************************************)
C13_RaiseReportedViaOnError ==
  /\ Len(reported) >= Cardinality(RaisedCalls)
  /\ rejection # "engine raised"

(***************************************************************************)
(* C13 amended: when the engine raises on a record the failure is caught   *)
(* for that record and logged with console.warn, the error callback is not *)
(* called for it, processChunk does not throw, later records are still     *)
(* dispatched and the operation still completes with a Load Result.        *)
(***************************************************************************)
C13_RaiseCaughtAndWarned ==
  /\ layer.warnings = Cardinality(RaisedCalls)
  /\ rejection # "engine raised"
  /\ HasHandle(layer) => Len(layer.engine) = Len(calls)
  /\ rejection \notin SourceErrors =>
       /\ errors = 0
       /\ pc \in {"fetching", "reading", "done"}
  /\ pc = "done" => (completes = 1 /\ settled = "resolved")

\* the engine raised on one record, accepted a later one, and the operation
\* completed
C13_Witness ==
  /\ pc = "done"
  /\ completes = 1
  /\ \E i \in RaisedCalls : \E j \in AcceptedCalls : i < j

(***************************************************************************)
(* C14: loadFromUrl completes exactly once: over every interleaving of the *)
(* handoff arrival, the fetch answer and the timeout there is at most one  *)
(* completion, a completion and a terminal error never both occur, and     *)
(* after the timeout error no completion is reported and no payload is     *)
(* applied.                                                                *)
(***************************************************************************)
C14_CompletesExactlyOnce ==
  /\ completes <= 1
  /\ ~(completes >= 1 /\ settled = "rejected")
  /\ completes = 1 <=> settled = "resolved"
  /\ rejection = "timed out" => (completes = 0 /\ submitted = <<>>)

(***************************************************************************)
(* C15: state.done is single-assignment: it is set at most once, loadData  *)
(* is invoked only by the path that set it, hence for at most one of the   *)
(* two paths, and completeCallback is invoked at most once, whichever path *)
(* arrives first.                                                          *)
(***************************************************************************)
C15_SettledFlagSingleAssignment ==
  /\ doneSets <= 1
  /\ stateDone <=> doneSets = 1
  /\ Len(submitted) = doneSets
  /\ completes <= Len(submitted)

\* path (b) was applied first and path (a)'s later payload was ignored
C15_Witness ==
  /\ lastTurn = "slot-ignored"
  /\ fetchState = "fulfilled"
  /\ producer = "written"
  /\ submitted = <<FetchPayload>>
  /\ completes = 1

(***************************************************************************)
(* C16: while neither path has settled the poll stays armed, and the poll  *)
(* that finds the deadline passed rejects the operation with the timeout   *)
(* error (if neither path had settled) and leaves the Handoff Slot empty,  *)
(* whether or not the operation had settled.                               *)
(***************************************************************************)
C16_TimeoutRejectsAndClearsSlot ==
  /\ (urlPc = "running" /\ ~stateDone /\ settled = "pending") => pollArmed
  /\ lastTurn = "timeout" => (slot = Null /\ expired /\ ~pollArmed)
  /\ (lastTurn = "timeout" /\ ~stateDone) =>
       (settled = "rejected" /\ rejection = "timed out")
  /\ rejection = "timed out" => (settled = "rejected" /\ expired)

\* the engine wrote the slot, the deadline passed before the next poll, and
\* that poll timed out: the payload was dropped and the operation rejected
C16_Witness ==
  /\ lastTurn = "timeout"
  /\ producer = "written"
  /\ submitted = <<>>
  /\ rejection = "timed out"
  /\ slot = Null

(***************************************************************************)
(* C17: whenever checkForData observes a payload in the Handoff Slot it    *)
(* clears the slot in the same turn, on every branch: payload applied,     *)
(* operation already settled by path (b), or applying the payload raised.  *)
(***************************************************************************)
C17_ObservedPayloadIsCleared ==
  lastTurn \in {"slot-applied", "slot-ignored", "slot-raised"} => slot = Null

(***************************************************************************)
(* C18: once loadFromUrl has settled (path (a) or (b) succeeded, failure   *)
(* or timeout) no checkForData poll is scheduled any more.                 *)
(***************************************************************************)
C18_PollCancelledOnceSettled ==
  settled # "pending" => ~pollArmed

(***************************************************************************)
(* Notions of the deferred-attachment claims.                              *)
(***************************************************************************)
\* the text form loadData derives from its argument, Null when there is none
TextForm(geojson) ==
  IF IsString(geojson) THEN geojson ELSE JSONstringify(geojson).value

\* the load_geojson calls the engine accepted
AppliedCalls == {i \in LoadCalls(layer) : layer.engine[i].ok}

\* the first load_geojson call made on the engine
FirstLoadCall == CHOOSE i \in LoadCalls(layer) : \A j \in LoadCalls(layer) : i <= j

(***************************************************************************)
(* C19: while the layer has no consumer handle and nothing has been sent   *)
(* to the engine, the Pending Attachment is the text of the latest         *)
(* loadData call (a later call overwrites an earlier one), and the first   *)
(* payload sent to the engine once the handle exists is the latest one     *)
(* submitted by then.                                                      *)
(***************************************************************************)
C19_LatestDeferredPayloadWins ==
  /\ ( /\ submitted # <<>>
       /\ ~HasHandle(layer)
       /\ LoadCalls(layer) = {}
       /\ TextForm(submitted[Len(submitted)]) # Null )
     => layer.pendingText = TextForm(submitted[Len(submitted)])
  /\ ( /\ appliedAt # <<>>
       /\ TextForm(submitted[appliedAt[1]]) # Null )
     => layer.engine[FirstLoadCall].text = TextForm(submitted[appliedAt[1]])

(***************************************************************************)
(* C20: the guard of loadData suppresses later calls once, and only once,  *)
(* a payload has been successfully applied to the engine: the guard flag   *)
(* is set exactly when the engine has accepted a payload of this layer.    *)
(***************************************************************************)
C20_GuardOnlyAfterSuccessfulApply ==
  layer.dataLoaded <=> AppliedCalls # {}

(***************************************************************************)
(* Notions of the dispatch-pass claims.                                    *)
(***************************************************************************)
\* the texts of the dispatched records, concatenated in order
RECURSIVE Flatten(_)
Flatten(dispatched) ==
  IF dispatched = <<>> THEN <<>>
  ELSE Head(dispatched).chunk \o Flatten(Tail(dispatched))

(***************************************************************************)
(* C23: processStreamingBuffer called with isFinal = true behaves as with  *)
(* isFinal = false: every dispatched record is a complete object flagged   *)
(* isFinal = false, and the text after the last complete object is         *)
(* returned as remaining, not dispatched.                                  *)
(***************************************************************************)
C23_FinalFlagIgnoredByPass ==
  (fnPc = "processed" /\ fnFinal) =>
    /\ fnOut = processStreamingBuffer(fnText, FALSE)
    /\ \A i \in 1..Len(fnOut.dispatched) :
         /\ ~fnOut.dispatched[i].isFinal
         /\ IsBoundary(fnOut.dispatched[i].chunk,
                       Len(fnOut.dispatched[i].chunk))
    /\ NoBoundary(fnOut.remaining)
    /\ IsSuffix(fnOut.remaining, fnText)
    /\ (fnText = ExA1 =>
          (fnOut.processed = 1 /\ fnOut.dispatched[1].chunk = ExA1))

\* a final pass over one object followed by an unterminated one: the object
\* was dispatched as non-final and the open text came back as remaining
C23_Witness ==
  /\ fnPc = "processed"
  /\ fnFinal
  /\ fnOut.processed = 1
  /\ TrimNonEmpty(fnOut.remaining)

(***************************************************************************)
(* C26: findCompleteJsonEnd is prefix-stable: an index it returns for a    *)
(* text is the index it returns for that text followed by any further      *)
(* text, and when it returns -1 for a text it returns -1 for every prefix. *)
(***************************************************************************)
C26_BoundaryIsPrefixStable ==
  fnPc = "rescanned" =>
    /\ fnOut.index # -1 => fnOut2.index = fnOut.index
    /\ fnOut2.index = -1 => fnOut.index = -1

\* a text with a boundary was extended by text that holds another boundary
C26_Witness ==
  /\ fnPc = "rescanned"
  /\ fnOut.index # -1
  /\ ~NoBoundary(fnExt)
  /\ fnOut2.index = fnOut.index

(***************************************************************************)
(* C27: a processStreamingBuffer pass partitions the buffer: the texts of  *)
(* the dispatched records in order followed by the remaining text are the  *)
(* input buffer, and processed is the number of consumer invocations.      *)
(***************************************************************************)
C27_PassPartitionsBuffer ==
  fnPc = "processed" =>
    /\ Flatten(fnOut.dispatched) \o fnOut.remaining = fnText
    /\ fnOut.processed = Len(fnOut.dispatched)
    /\ \A i \in 1..Len(fnOut.dispatched) : fnOut.dispatched[i].chunk # <<>>

\* two objects separated by whitespace and followed by more text
C27_Witness ==
  /\ fnPc = "processed"
  /\ fnOut.processed = 2
  /\ fnOut.dispatched[2].chunk[1] \in Whitespace
  /\ fnOut.remaining # <<>>

(***************************************************************************)
(* Notions of the processChunk claim.                                      *)
(***************************************************************************)
\* the processChunk calls made while the layer had a handle, in order
RECURSIVE Forwarded(_, _)
Forwarded(cs, hs) ==
  IF cs = <<>> THEN <<>>
  ELSE (IF Head(hs) THEN <<Head(cs)>> ELSE <<>>)
         \o Forwarded(Tail(cs), Tail(hs))

IsChunkCall(e) == e.op = "load_geojson_chunk"

\* what the engine was given by load_geojson_chunk, in order
EngineChunks ==
  LET es == SelectSeq(layer.engine, IsChunkCall)
  IN  [i \in 1..Len(es) |-> [chunk |-> es[i].chunk, isFinal |-> es[i].isFinal]]

(***************************************************************************)
(* C24: processChunk forwards the text and the isFinal flag to the engine  *)
(* exactly when the layer has a consumer handle; without a handle it does  *)
(* nothing, does not throw and stores nothing, so a record dispatched      *)
(* while no consumer is attached is not delivered after the layer has been *)
(* attached.                                                               *)
(***************************************************************************)
C24_ForwardsIffHandle ==
  /\ Len(handled) = Len(calls)
  /\ EngineChunks = Forwarded(calls, handled)
  /\ layer.pendingText = Null
  /\ layer.geojson = Null
  /\ filePc # "crashed"

\* a file was read to its end: a record dispatched before the layer was
\* attached is missing from the engine, a later one was forwarded
C24_Witness ==
  /\ filePc = "done"
  /\ \E i, j \in 1..Len(calls) : i < j /\ ~handled[i] /\ handled[j]
  /\ Len(EngineChunks) < Len(calls)

(***************************************************************************)
(* Notions of the loadFile claim.                                          *)
(***************************************************************************)
\* the slices dispatched so far are the file up to the running offset, each
\* of chunkSize characters except possibly the last
FileSlicesInOrder ==
  /\ Flatten(calls) = SubSeq(file, 1, offset)
  /\ \A i \in 1..Len(calls) :
       /\ Len(calls[i].chunk) <= chunkSize
       /\ (i < Len(calls) => Len(calls[i].chunk) = chunkSize)

\* only the last slice of the file is flagged final
FileFinalIsLast ==
  /\ \A i \in 1..Len(calls) :
       calls[i].isFinal <=> (i = Len(calls) /\ offset >= Len(file))
  /\ filePc = "done" =>
       /\ Len(calls) >= 1
       /\ calls[Len(calls)].isFinal
       /\ offset = Len(file)

\* one completion after the last slice, or one error and no further read
FileEndsOnce ==
  /\ completes <= 1
  /\ completes = 1 <=> filePc = "done"
  /\ filePc = "done" => (settled = "resolved" /\ errors = 0 /\ inFlight = 0)
  /\ errors <= 1
  /\ errors = 1 <=> filePc = "failed"
  /\ filePc = "failed" =>
       /\ reported = <<"Failed to read file">>
       /\ settled = "rejected"
       /\ rejection = "Failed to read file"
       /\ completes = 0
       /\ inFlight = 0

(***************************************************************************)
(* C30: loadFile dispatches the file as consecutive slices of at most      *)
(* chunkSize characters, in order, flags exactly the last slice as final,  *)
(* then completes once and resolves; a read error is reported once and     *)
(* rejects with no further read; and the operation always ends, a          *)
(* FileReader answering every read and every slice of an unfinished file   *)
(* holding at least one character.                                         *)
(***************************************************************************)
C30_FileReadInSlicesAndEnds ==
  /\ [](FileSlicesInOrder /\ FileFinalIsLast /\ FileEndsOnce)
  /\ <>(filePc \in {"done", "failed"})

\* a file was read in several slices, the last one shorter than chunkSize
C30_Witness ==
  /\ filePc = "done"
  /\ Len(calls) >= 2
  /\ Len(calls[Len(calls)].chunk) < chunkSize
  /\ completes = 1

(***************************************************************************)
(* Notions of the pending-attachment claims.                               *)
(***************************************************************************)
\* the places in engine of the load_geojson calls made by pending flushes
FlushCalls == {layer.flushes[k] : k \in 1..Len(layer.flushes)}

(***************************************************************************)
(* C21: a loadData call without consumer handle stores the text as the     *)
(* Pending Attachment and arms one timer; the pending payload is flushed   *)
(* to the engine at most once, by addTo or by the timer and never by both; *)
(* a flush the engine accepts is followed by the style call; after the     *)
(* flush the pending slot is empty and the timer is cancelled.             *)
(***************************************************************************)
C21_DeferredFlushOnce ==
  /\ ( /\ submitted # <<>>
       /\ TextForm(submitted[1]) # Null
       /\ LoadCalls(layer) = {} )
     => layer.pendingText = TextForm(submitted[1])
  /\ layer.pendingText # Null =>
       /\ layer.pendingText = TextForm(submitted[1])
       /\ layer.pendingTimer
       /\ layer.intervals = 1
       /\ layer.flushes = <<>>
  /\ Len(layer.flushes) <= 1
  /\ \A k \in FlushCalls :
       /\ layer.engine[k].op = "load_geojson"
       /\ layer.engine[k].text = TextForm(submitted[1])
       /\ layer.engine[k].ok =>
            /\ Len(layer.engine) > k
            /\ layer.engine[k + 1].op = "set_geojson_style"
  /\ layer.flushes # <<>> =>
       /\ layer.pendingText = Null
       /\ ~layer.pendingTimer
       /\ layer.intervals = 0

\* the timer, not addTo, flushed the pending payload, and a later addTo did
\* not flush it again
C21_Witness ==
  /\ Len(layer.flushes) = 1
  /\ layer.engine[layer.flushes[1]].ok
  /\ layer.flushes[1] > 2
  /\ layer.engine[layer.flushes[1] - 1].op = "add_geojson_layer"
  /\ ~layer.engine[layer.flushes[1] - 1].ok

(***************************************************************************)
(* C22: the Pending Attachment stays stored until a flush in which the     *)
(* engine accepts it: a flush during which the engine raises does not      *)
(* discard it.                                                             *)
(***************************************************************************)
C22_PendingKeptUntilAccepted ==
  ( /\ layer.flushes # <<>>
    /\ \A k \in FlushCalls : ~layer.engine[k].ok )
  => layer.pendingText # Null

(***************************************************************************)
(* C29: over every sequence of loadData, addTo, remove and clear calls and *)
(* timer ticks the timer is armed only while a Pending Attachment is       *)
(* stored, and the layer has at most one live timer, the one it holds.     *)
(***************************************************************************)
C29_TimerOnlyWhilePending ==
  /\ layer.pendingTimer => layer.pendingText # Null
  /\ layer.intervals <= 1
  /\ layer.intervals = 1 <=> layer.pendingTimer

\* the timer is armed, a second loadData call came while it was armed, and
\* clear and a failed addTo have run
C29_Witness ==
  /\ layer.pendingTimer
  /\ layer.intervals = 1
  /\ Len(submitted) = 2
  /\ layer.geojson = Null
  /\ layer.map

(***************************************************************************)
(* Notions of the loadFromUrl claims.                                      *)
(***************************************************************************)
FetchFailureReported ==
  \E k \in 1..Len(reported) : reported[k] = "Fetch fallback failed"

\* the layer holds the payload: an engine call carried it or it is pending
HandedToLayer(p) ==
  \/ layer.pendingText = p
  \/ \E k \in LoadCalls(layer) : layer.engine[k].text = p

(***************************************************************************)
(* C25: a failure of the fetch fallback of loadFromUrl never settles the   *)
(* operation: it is reported through the error callback only, it does not  *)
(* reject the promise and it does not set the settled flag, so once it is  *)
(* reported the flag can only have been set by path (a).                   *)
(***************************************************************************)
C25_FetchFailureNeverSettles ==
  FetchFailureReported =>
    /\ stateDone => submitted = <<SlotPayload>>
    /\ settled = "rejected" => rejection \in {"timed out", "apply failed"}

(***************************************************************************)
(* C28: whenever loadFromUrl reports completion, the winning path's        *)
(* payload has been handed to the layer, forwarded to the engine or stored *)
(* as pending, also when the layer had already loaded data before.         *)
(***************************************************************************)
C28_CompletionMeansPayloadHanded ==
  completes >= 1 =>
    /\ submitted # <<>>
    /\ HandedToLayer(submitted[Len(submitted)])

====
